---- MODULE Spec2Model ----
(***************************************************************************)
(* Format-context open functions (src/format/mod.rs) and the three Flags   *)
(* types (codec/packet/flag.rs, software/resampling/flag.rs,               *)
(* util/frame/flag.rs) of rust-ffmpeg.                                     *)
(*                                                                         *)
(* Each open function is modelled as its statement list, executed one      *)
(* statement per step against a model of the native heap: the format       *)
(* context behind `ps`, its byte sink `pb`, the raw options dictionary and *)
(* the interrupt callback.  The native calls are the environment: their    *)
(* return codes are chosen nondeterministically and their effect on the    *)
(* heap follows the documented contract of the native library.             *)
(***************************************************************************)
EXTENDS Integers, Sequences, FiniteSets, TLC

\* ------------------------------------------------------------------ bounds
\* Native return codes are abstracted to -MaxCode .. MaxCode.
MaxCode == 2
\* The interrupt predicate is polled at most MaxPolls times before the poll
\* counter saturates.
MaxPolls == 2
\* Raw integers fed to Flags::from_bits range over 0 .. MaxRaw.
MaxRaw == 4

FailCodes == (-MaxCode) .. (-1)
PosCodes == 1 .. MaxCode
\* the code with which the native layer aborts an interrupted operation
AVERROR_EXIT == -MaxCode

\* --------------------------------------------------------- statement forms
Stmt(op) == [op |-> op, opts |-> FALSE, arm |-> "-", then |-> "-", else |-> "-"]
NativeCall(op, opts) == [op |-> op, opts |-> opts, arm |-> "-", then |-> "-", else |-> "-"]
Match(arm, then, else) == [op |-> "match", opts |-> FALSE, arm |-> arm, then |-> then, else |-> else]

\* ------------------------------------------------------ the open functions
\* open(path, format), mod.rs 68-103
open(fmt) ==
    IF fmt = "Input"
    THEN << Stmt("from_path"),                                 \* 71
            NativeCall("avformat_open_input", FALSE),          \* 74-79
            Match("zero", "next", "err"),                      \* 80 / 85
            NativeCall("avformat_find_stream_info", FALSE),    \* 80
            Match("nonneg", "wrap", "err") >>                  \* 81-82
    ELSE << Stmt("from_path"),                                 \* 71
            NativeCall("avformat_alloc_output_context2", FALSE), \* 88-93
            Match("zero", "next", "err"),                      \* 94 / 99
            NativeCall("avio_open", FALSE),                    \* 94
            Match("zero", "wrap", "err") >>                    \* 95-96

\* open_with(path, format, options), mod.rs 105-146
open_with(fmt) ==
    IF fmt = "Input"
    THEN << Stmt("from_path"),                                 \* 112
            Stmt("disown"),                                    \* 113
            NativeCall("avformat_open_input", TRUE),           \* 117
            Stmt("own"),                                       \* 119
            Match("zero", "next", "err"),                      \* 121-122 / 127
            NativeCall("avformat_find_stream_info", FALSE),    \* 122
            Match("nonneg", "wrap", "err") >>                  \* 123-124
    ELSE << Stmt("from_path"),                                 \* 112
            Stmt("disown"),                                    \* 113
            NativeCall("avformat_alloc_output_context2", FALSE), \* 131-136
            Match("zero", "next", "err"),                      \* 137 / 142
            NativeCall("avio_open", FALSE),                    \* 137
            Match("zero", "wrap", "err") >>                    \* 138-139

\* input(path), mod.rs 148-165
input ==
    << Stmt("from_path"),                                      \* 151
       NativeCall("avformat_open_input", FALSE),               \* 153
       Match("zero", "next", "err"),                           \* 154 / 162
       NativeCall("avformat_find_stream_info", FALSE),         \* 154
       Match("nonneg", "wrap", "close_err") >>                 \* 155-159

\* input_with_dictionary(path, options), mod.rs 167-191
input_with_dictionary ==
    << Stmt("from_path"),                                      \* 173
       Stmt("disown"),                                         \* 174
       NativeCall("avformat_open_input", TRUE),                \* 175
       Stmt("own"),                                            \* 177
       Match("zero", "next", "err"),                           \* 179-180 / 188
       NativeCall("avformat_find_stream_info", FALSE),         \* 180
       Match("nonneg", "wrap", "close_err") >>                 \* 181-185

\* mutant of input_with_interrupt: the callback is never installed
input_with_interrupt_NoCallback ==
    << Stmt("avformat_alloc_context"),
       Stmt("from_path"),
       NativeCall("avformat_open_input", FALSE),
       Match("zero", "next", "err"),
       NativeCall("avformat_find_stream_info", FALSE),
       Match("nonneg", "wrap", "close_err") >>

\* input_with_interrupt(path, closure), mod.rs 193-214
input_with_interrupt ==
    << Stmt("avformat_alloc_context"),                         \* 198
       Stmt("from_path"),                                      \* 199
       Stmt("set_interrupt_callback"),                         \* 200
       NativeCall("avformat_open_input", FALSE),               \* 202
       Match("zero", "next", "err"),                           \* 203 / 211
       NativeCall("avformat_find_stream_info", FALSE),         \* 203
       Match("nonneg", "wrap", "close_err") >>                 \* 204-208

\* mutant of output: the context is wrapped without opening its sink
output_NoSink ==
    << Stmt("from_path"),
       NativeCall("avformat_alloc_output_context2", FALSE),
       Match("zero", "wrap", "err") >>

\* output(path), mod.rs 216-230
output ==
    << Stmt("from_path"),                                      \* 219
       NativeCall("avformat_alloc_output_context2", FALSE),    \* 221
       Match("zero", "next", "err"),                           \* 222 / 227
       NativeCall("avio_open", FALSE),                         \* 222
       Match("zero", "wrap", "err") >>                         \* 223-224

\* output_with(path, options), mod.rs 232-259
output_with ==
    << Stmt("from_path"),                                      \* 235
       Stmt("disown"),                                         \* 236
       NativeCall("avformat_alloc_output_context2", FALSE),    \* 238
       Match("zero", "next", "err"),                           \* 239 / 256
       NativeCall("avio_open2", TRUE),                         \* 240-246
       Stmt("own"),                                            \* 248
       Match("zero", "wrap", "err") >>                         \* 250-253

\* output_as(path, format), mod.rs 261-276
output_as ==
    << Stmt("from_path"),                                      \* 264
       Stmt("CString::new"),                                   \* 265
       NativeCall("avformat_alloc_output_context2", FALSE),    \* 267
       Match("zero", "next", "err"),                           \* 268 / 273
       NativeCall("avio_open", FALSE),                         \* 268
       Match("zero", "wrap", "err") >>                         \* 269-270

\* output_as_with(path, format, options), mod.rs 278-310
output_as_with ==
    << Stmt("from_path"),                                      \* 285
       Stmt("CString::new"),                                   \* 286
       Stmt("disown"),                                         \* 287
       NativeCall("avformat_alloc_output_context2", FALSE),    \* 289
       Match("zero", "next", "err"),                           \* 290 / 307
       NativeCall("avio_open2", TRUE),                         \* 291-297
       Stmt("own"),                                            \* 299
       Match("zero", "wrap", "err") >>                         \* 301-304

FormatFns == {"open", "open_with"}
InputFns == {"input", "input_with_dictionary", "input_with_interrupt"}
OutputFns == {"output", "output_with", "output_as", "output_as_with"}
Fns == FormatFns \cup InputFns \cup OutputFns

\* the functions whose signature has `options: Dictionary`
TakesOptions(f) == f \in {"open_with", "input_with_dictionary", "output_with", "output_as_with"}
\* the functions whose signature has `format: &str`
TakesFormatName(f) == f \in {"output_as", "output_as_with"}
\* the function whose signature has `closure: impl FnMut() -> bool`
TakesClosure(f) == f = "input_with_interrupt"

Body(f, fmt) ==
    CASE f = "open" -> open(fmt)
      [] f = "open_with" -> open_with(fmt)
      [] f = "input" -> input
      [] f = "input_with_dictionary" -> input_with_dictionary
      [] f = "input_with_interrupt" -> input_with_interrupt
      [] f = "output" -> output
      [] f = "output_with" -> output_with
      [] f = "output_as" -> output_as
      [] f = "output_as_with" -> output_as_with

\* which kind of context the function opens
OpensInput(f, fmt) == f \in InputFns \/ (f \in FormatFns /\ fmt = "Input")

\* mutants of ArmMatches: `0 =>` written as a test for "not positive", and
\* `r if r >= 0 =>` written as `0 =>`
ArmMatches_NotPositive(arm, e) == IF arm = "zero" THEN e <= 0 ELSE e >= 0
ArmMatches_ZeroOnly(arm, e) == e = 0

\* the match arms on a native return code: `0 =>` and `r if r >= 0 =>`
ArmMatches(arm, e) == IF arm = "zero" THEN e = 0 ELSE e >= 0

\* Err(Error::from(e))
ErrorFrom(e) == [tag |-> "Err", code |-> e]
OkWrap == [tag |-> "Ok", code |-> 0]
NoResult == [tag |-> "none", code |-> 0]

\* the closure passed to input_with_interrupt answers true from its
\* (thresh+1)-th invocation on; n is the number of earlier invocations
Closure(thresh, n) == n >= thresh
Never == MaxPolls + 1
\* the callback built by interrupt::new(Box::new(closure)) hands the
\* closure's answer to the native layer
interrupt_callback(thresh, n) == Closure(thresh, n)

\* ------------------------------------------------------------------ Flags
AV_PKT_FLAG_KEY == 1
AV_PKT_FLAG_CORRUPT == 2
SWR_FLAG_RESAMPLE == 1
AV_FRAME_FLAG_CORRUPT == 1

Kinds == {"packet", "resampling", "frame"}

\* the constants each bitflags! block declares
Declared(k) ==
    CASE k = "packet" -> {AV_PKT_FLAG_KEY, AV_PKT_FLAG_CORRUPT}
      [] k = "resampling" -> {SWR_FLAG_RESAMPLE}
      [] k = "frame" -> {AV_FRAME_FLAG_CORRUPT}

\* c_int in two's complement: &, | and ! act bit by bit and cannot overflow,
\* so they are computed on the unbounded two's complement image (-1 is all
\* ones, \div rounds down)
RECURSIVE BitAnd(_, _)
BitAnd(a, b) ==
    IF a = 0 \/ b = 0 THEN 0
    ELSE IF a = -1 THEN b
    ELSE IF b = -1 THEN a
    ELSE (IF a % 2 = 1 /\ b % 2 = 1 THEN 1 ELSE 0) + 2 * BitAnd(a \div 2, b \div 2)
RECURSIVE BitOr(_, _)
BitOr(a, b) ==
    IF a = -1 \/ b = -1 THEN -1
    ELSE IF a = 0 THEN b
    ELSE IF b = 0 THEN a
    ELSE (IF a % 2 = 1 \/ b % 2 = 1 THEN 1 ELSE 0) + 2 * BitOr(a \div 2, b \div 2)
BitNot(a) == -a - 1

RECURSIVE OrAll(_)
OrAll(S) == IF S = {} THEN 0 ELSE LET c == CHOOSE c \in S : TRUE IN BitOr(c, OrAll(S \ {c}))

\* the generated struct is `Flags { bits: c_int }`
Flags(b) == [bits |-> b]
None == [none |-> TRUE]
Some(v) == [some |-> v]

empty == Flags(0)
\* mutant of all: only one of the declared constants makes it into the mask
all_FirstOnly(k) == Flags(CHOOSE c \in Declared(k) : \A d \in Declared(k) : c <= d)
all(k) == Flags(OrAll(Declared(k)))
bits(f) == f.bits
from_bits(k, b) == IF BitAnd(b, BitNot(all(k).bits)) = 0 THEN Some(Flags(b)) ELSE None
from_bits_truncate(k, b) == Flags(BitAnd(b, all(k).bits))
union(f, g) == Flags(BitOr(f.bits, g.bits))
intersection(f, g) == Flags(BitAnd(f.bits, g.bits))

\* the values that can be built from the declared constants
Built(k) == {Flags(OrAll(S)) : S \in SUBSET Declared(k)}

\* ------------------------------------------------------------------ state
VARIABLES
    status,     \* "idle" | "running" | "done" | "panicked" | "crashed" | "flags"
    fn,         \* the open function called
    format,     \* "Input" | "Output" for open/open_with, "-" otherwise
    pc,         \* index of the next statement of Body(fn, format)
    pathNul,    \* the path holds an embedded NUL
    nameNul,    \* the format name holds an embedded NUL
    thresh,     \* the closure answers true from invocation thresh+1 on
    polls,      \* invocations of the closure so far (saturating)
    polled,     \* the native layer has invoked the closure
    nat,        \* "idle" | "blocked": inside avformat_open_input
    ps,         \* the local `ps`: "null" | "ctx"
    ctx,        \* the native context: "none" | "allocated" | "opened" | "freed"
    pb,         \* the byte sink of the context: "closed" | "open"
    cb,         \* interrupt_callback installed on the context
    prealloc,   \* the wrapper allocated the context itself
    dict,       \* "none" | "owned" | "disowned" | "reclaimed" | "dropped"
    dictCalls,  \* native calls the raw dictionary was handed to
    e,          \* return code of the last native call
    rets,       \* the native calls made and their return codes
    result,     \* what the function returned
    wrapAt,     \* <<ps, ctx, pb>> as wrap() found them
    frees,      \* times the context was released
    kind, fa, fb, raw, fop, fout  \* the Flags operations

openVars == <<status, fn, format, pc, pathNul, nameNul, thresh, polls, polled, nat,
              ps, ctx, pb, cb, prealloc, dict, dictCalls, e, rets, result, wrapAt, frees>>
flagVars == <<kind, fa, fb, raw, fop, fout>>
vars == <<openVars, flagVars>>

Idle ==
    /\ status = "idle" /\ fn = "-" /\ format = "-" /\ pc = 0
    /\ pathNul = FALSE /\ nameNul = FALSE /\ thresh = Never
    /\ polls = 0 /\ polled = FALSE /\ nat = "idle"
    /\ ps = "null" /\ ctx = "none" /\ pb = "closed" /\ cb = FALSE /\ prealloc = FALSE
    /\ dict = "none" /\ dictCalls = 0 /\ e = 0 /\ rets = <<>>
    /\ result = NoResult /\ wrapAt = <<>> /\ frees = 0

NoFlags ==
    /\ kind = "-" /\ fa = empty /\ fb = empty /\ raw = 0 /\ fop = "-" /\ fout = None

Init == Idle /\ NoFlags

Running == status = "running"
Cur == Body(fn, format)[pc]
At(op) == Running /\ nat = "idle" /\ Cur.op = op


\* ---------------------------------------------------------------- effects
\* unwinding drops the `options` argument if it is still owned
Unwind == IF dict = "owned" THEN "dropped" ELSE dict

\* a native call returned code c
Returned(op, c) == /\ e' = c
                   /\ rets' = Append(rets, <<op, c>>)

\* avformat_open_input returns c: on success *ps is the opened context, on
\* failure the context (user-supplied or allocated by the call) is freed and
\* *ps is set to NULL
OpenInputReturns(c) ==
    /\ Returned("avformat_open_input", c)
    /\ nat' = "idle"
    /\ pc' = pc + 1
    /\ IF c = 0
       THEN /\ ps' = "ctx" /\ ctx' = "opened" /\ frees' = frees
       ELSE /\ ps' = "null" /\ ctx' = "freed" /\ frees' = frees + 1

\* avformat_close_input(&mut ps): frees *ps and sets it to NULL; a NULL *ps is
\* left alone
CloseInput ==
    /\ ps' = "null"
    /\ IF ps = "null"
       THEN ctx' = ctx /\ frees' = frees /\ pb' = pb
       ELSE ctx' = "freed" /\ frees' = frees + 1 /\ pb' = "closed"

\* ---------------------------------------------------------------- actions
\* a caller invokes one of the open functions
Call ==
    /\ status = "idle"
    /\ \E f \in Fns, fmt \in {"Input", "Output", "-"}, pn \in BOOLEAN,
          nn \in BOOLEAN, th \in 0 .. Never :
        /\ (f \in FormatFns) <=> (fmt # "-")
        /\ nn => TakesFormatName(f)
        /\ (th # Never) => TakesClosure(f)
        /\ fn' = f /\ format' = fmt /\ pathNul' = pn /\ nameNul' = nn /\ thresh' = th
        /\ dict' = IF TakesOptions(f) THEN "owned" ELSE "none"
    /\ status' = "running"
    /\ pc' = 1
    /\ UNCHANGED <<polls, polled, nat, ps, ctx, pb, cb, prealloc, dictCalls, e, rets,
                   result, wrapAt, frees, flagVars>>

\* let path = from_path(path.as_ref());  CString::new(..).unwrap() panics on
\* an embedded NUL
FromPath ==
    /\ At("from_path")
    /\ IF pathNul
       THEN status' = "panicked" /\ dict' = Unwind /\ pc' = pc
       ELSE status' = status /\ dict' = dict /\ pc' = pc + 1
    /\ UNCHANGED <<fn, format, pathNul, nameNul, thresh, polls, polled, nat, ps, ctx, pb,
                   cb, prealloc, dictCalls, e, rets, result, wrapAt, frees, flagVars>>

\* let format = CString::new(format).unwrap();
CStringNew ==
    /\ At("CString::new")
    /\ IF nameNul
       THEN status' = "panicked" /\ dict' = Unwind /\ pc' = pc
       ELSE status' = status /\ dict' = dict /\ pc' = pc + 1
    /\ UNCHANGED <<fn, format, pathNul, nameNul, thresh, polls, polled, nat, ps, ctx, pb,
                   cb, prealloc, dictCalls, e, rets, result, wrapAt, frees, flagVars>>

\* let mut ps = avformat_alloc_context();  NULL when the allocation fails
AllocContext ==
    /\ At("avformat_alloc_context")
    /\ \/ ps' = "ctx" /\ ctx' = "allocated" /\ prealloc' = TRUE
       \/ ps' = "null" /\ ctx' = ctx /\ prealloc' = prealloc
    /\ pc' = pc + 1
    /\ UNCHANGED <<status, fn, format, pathNul, nameNul, thresh, polls, polled, nat, pb,
                   cb, dict, dictCalls, e, rets, result, wrapAt, frees, flagVars>>

\* (*ps).interrupt_callback = interrupt::new(Box::new(closure)).interrupt;
\* with ps = NULL the store is undefined behaviour: the process faults, or
\* the store is lost and execution goes on
SetInterrupt ==
    /\ At("set_interrupt_callback")
    /\ IF ps = "null"
       THEN \/ status' = "crashed" /\ pc' = pc /\ cb' = cb
            \/ status' = status /\ pc' = pc + 1 /\ cb' = cb
       ELSE status' = status /\ pc' = pc + 1 /\ cb' = TRUE
    /\ UNCHANGED <<fn, format, pathNul, nameNul, thresh, polls, polled, nat, ps, ctx, pb,
                   prealloc, dict, dictCalls, e, rets, result, wrapAt, frees, flagVars>>

\* let mut opts = options.disown();
Disown ==
    /\ At("disown")
    /\ dict' = "disowned"
    /\ pc' = pc + 1
    /\ UNCHANGED <<status, fn, format, pathNul, nameNul, thresh, polls, polled, nat, ps,
                   ctx, pb, cb, prealloc, dictCalls, e, rets, result, wrapAt, frees, flagVars>>

\* Dictionary::own(opts);
Own ==
    /\ At("own")
    /\ dict' = "reclaimed"
    /\ pc' = pc + 1
    /\ UNCHANGED <<status, fn, format, pathNul, nameNul, thresh, polls, polled, nat, ps,
                   ctx, pb, cb, prealloc, dictCalls, e, rets, result, wrapAt, frees, flagVars>>

\* avformat_open_input(&mut ps, path, format, opts) is entered: with *ps NULL
\* the call allocates the context itself
OpenInputEnter ==
    /\ At("avformat_open_input")
    /\ nat' = "blocked"
    /\ ctx' = IF ps = "null" THEN "allocated" ELSE ctx
    /\ dictCalls' = IF Cur.opts THEN dictCalls + 1 ELSE dictCalls
    /\ UNCHANGED <<status, fn, format, pc, pathNul, nameNul, thresh, polls, polled, ps, pb,
                   cb, prealloc, dict, e, rets, result, wrapAt, frees, flagVars>>

\* the native layer polls the installed interrupt callback while it waits;
\* an answer of true aborts the open with AVERROR_EXIT
OpenInputPoll ==
    /\ Running /\ nat = "blocked" /\ cb
    /\ polled' = TRUE
    /\ polls' = IF polls < MaxPolls THEN polls + 1 ELSE polls
    /\ IF interrupt_callback(thresh, polls)
       THEN OpenInputReturns(AVERROR_EXIT)
       ELSE UNCHANGED <<e, rets, nat, pc, ps, ctx, frees>>
    /\ UNCHANGED <<status, fn, format, pathNul, nameNul, thresh, pb, cb, prealloc, dict,
                   dictCalls, result, wrapAt, flagVars>>

\* the open finishes on its own: 0 on success, a negative code on failure
OpenInputComplete ==
    /\ Running /\ nat = "blocked"
    /\ \E c \in FailCodes \cup {0} : OpenInputReturns(c)
    /\ UNCHANGED <<status, fn, format, pathNul, nameNul, thresh, polls, polled, pb, cb,
                   prealloc, dict, dictCalls, result, wrapAt, flagVars>>

\* avformat_find_stream_info(ps, null): >= 0 on success, negative on failure;
\* the context stays open either way.  A NULL ps faults.
FindStreamInfo ==
    /\ At("avformat_find_stream_info")
    /\ IF ps = "null"
       THEN status' = "crashed" /\ UNCHANGED <<pc, e, rets>>
       ELSE /\ \E c \in FailCodes \cup {0} \cup PosCodes :
                  Returned("avformat_find_stream_info", c)
            /\ pc' = pc + 1 /\ status' = status
    /\ UNCHANGED <<fn, format, pathNul, nameNul, thresh, polls, polled, nat, ps, ctx, pb,
                   cb, prealloc, dict, dictCalls, result, wrapAt, frees, flagVars>>

\* avformat_alloc_output_context2(&mut ps, ..): >= 0 on success with *ps the
\* new context, negative on failure with *ps NULL
AllocOutput ==
    /\ At("avformat_alloc_output_context2")
    /\ \E c \in FailCodes \cup {0} \cup PosCodes :
        /\ Returned("avformat_alloc_output_context2", c)
        /\ IF c >= 0
           THEN ps' = "ctx" /\ ctx' = "allocated"
           ELSE ps' = "null" /\ ctx' = ctx
    /\ pc' = pc + 1
    /\ UNCHANGED <<status, fn, format, pathNul, nameNul, thresh, polls, polled, nat, pb,
                   cb, prealloc, dict, dictCalls, result, wrapAt, frees, flagVars>>

\* the sink open: >= 0 on success, negative on failure
SinkReturns(op, c) ==
    /\ Returned(op, c)
    /\ pb' = IF c >= 0 THEN "open" ELSE pb

\* avio_open(&mut (*ps).pb, path, AVIO_FLAG_WRITE); a NULL ps faults
AvioOpen ==
    /\ At("avio_open")
    /\ IF ps = "null"
       THEN status' = "crashed" /\ UNCHANGED <<pc, e, rets, pb>>
       ELSE /\ \E c \in FailCodes \cup {0} \cup PosCodes : SinkReturns("avio_open", c)
            /\ pc' = pc + 1 /\ status' = status
    /\ UNCHANGED <<fn, format, pathNul, nameNul, thresh, polls, polled, nat, ps,
                   ctx, cb, prealloc, dict, dictCalls, result, wrapAt, frees, flagVars>>

\* avio_open2(&mut (*ps).pb, path, AVIO_FLAG_WRITE, null, &mut opts); a NULL
\* ps faults
AvioOpen2 ==
    /\ At("avio_open2")
    /\ IF ps = "null"
       THEN status' = "crashed" /\ UNCHANGED <<pc, e, rets, pb, dictCalls>>
       ELSE /\ \E c \in FailCodes \cup {0} \cup PosCodes : SinkReturns("avio_open2", c)
            /\ dictCalls' = IF Cur.opts THEN dictCalls + 1 ELSE dictCalls
            /\ pc' = pc + 1 /\ status' = status
    /\ UNCHANGED <<fn, format, pathNul, nameNul, thresh, polls, polled, nat, ps,
                   ctx, cb, prealloc, dict, result, wrapAt, frees, flagVars>>

\* a match on the return code: the matching arm goes on to the next call or
\* wraps ps into the handle returned; the other arm returns Err(Error::from(e)),
\* after avformat_close_input(&mut ps) where the code has it
MatchArm ==
    /\ At("match")
    /\ IF ArmMatches(Cur.arm, e)
       THEN IF Cur.then = "next"
            THEN /\ pc' = pc + 1
                 /\ UNCHANGED <<status, result, wrapAt, ps, ctx, pb, frees>>
            ELSE /\ status' = "done"
                 /\ result' = OkWrap
                 /\ wrapAt' = <<ps, ctx, pb>>
                 /\ UNCHANGED <<pc, ps, ctx, pb, frees>>
       ELSE /\ status' = "done"
            /\ result' = ErrorFrom(e)
            /\ IF Cur.else = "close_err" THEN CloseInput ELSE UNCHANGED <<ps, ctx, pb, frees>>
            /\ UNCHANGED <<pc, wrapAt>>
    /\ UNCHANGED <<fn, format, pathNul, nameNul, thresh, polls, polled, nat, cb, prealloc,
                   dict, dictCalls, e, rets, flagVars>>

Next ==
    \/ Call
    \/ FromPath
    \/ CStringNew
    \/ AllocContext
    \/ SetInterrupt
    \/ Disown
    \/ Own
    \/ OpenInputEnter
    \/ OpenInputPoll
    \/ OpenInputComplete
    \/ FindStreamInfo
    \/ AllocOutput
    \/ AvioOpen
    \/ AvioOpen2
    \/ MatchArm

Spec == Init /\ [][Next]_vars

\* the statements of the running function follow one another, and the native
\* layer keeps polling an installed callback while it waits; the I/O an open
\* waits for need never complete, and a caller need never call
Program ==
    \/ FromPath \/ CStringNew \/ AllocContext \/ SetInterrupt \/ Disown \/ Own
    \/ OpenInputEnter \/ FindStreamInfo \/ AllocOutput \/ AvioOpen \/ AvioOpen2
    \/ MatchArm

SpecLive == Init /\ [][Next]_vars /\ WF_vars(Program) /\ WF_vars(OpenInputPoll)

\* --------------------------------------------------------- Flags operations
InitFlags ==
    /\ Idle
    /\ kind \in Kinds
    /\ fa \in Built(kind) /\ fb \in Built(kind)
    /\ raw \in 0 .. MaxRaw
    /\ fop = "-" /\ fout = None

\* Flags::from_bits(fa.bits())
RoundTrip ==
    /\ fop = "-"
    /\ fop' = "roundtrip"
    /\ fout' = from_bits(kind, bits(fa))
    /\ UNCHANGED <<kind, fa, fb, raw, openVars>>

\* fa | fb
Union ==
    /\ fop = "-"
    /\ fop' = "union"
    /\ fout' = Some(union(fa, fb))
    /\ UNCHANGED <<kind, fa, fb, raw, openVars>>

\* fa & fb
Intersection ==
    /\ fop = "-"
    /\ fop' = "intersection"
    /\ fout' = Some(intersection(fa, fb))
    /\ UNCHANGED <<kind, fa, fb, raw, openVars>>

\* Flags::from_bits(raw)
FromBits ==
    /\ fop = "-"
    /\ fop' = "from_bits"
    /\ fout' = from_bits(kind, raw)
    /\ UNCHANGED <<kind, fa, fb, raw, openVars>>

\* Flags::from_bits_truncate(raw)
FromBitsTruncate ==
    /\ fop = "-"
    /\ fop' = "from_bits_truncate"
    /\ fout' = Some(from_bits_truncate(kind, raw))
    /\ UNCHANGED <<kind, fa, fb, raw, openVars>>

NextFlags ==
    \/ RoundTrip
    \/ Union
    \/ Intersection
    \/ FromBits
    \/ FromBitsTruncate

SpecFlags == InitFlags /\ [][NextFlags]_vars


\* ------------------------------------------------------------ properties
Done == status = "done"
\* the native context is allocated
Live == ctx \in {"allocated", "opened"}
IsInputCall == OpensInput(fn, format)
Made(op) == \E i \in 1 .. Len(rets) : rets[i][1] = op
CodeOf(op) == rets[CHOOSE i \in 1 .. Len(rets) : rets[i][1] = op][2]
SinkOps == {"avio_open", "avio_open2"}

\* C1: when avformat_open_input fails, every input-opening function returns
\* Err carrying the code of that call, without faulting, and no native
\* context stays allocated -- also not the one input_with_interrupt allocated
\* before the call.
C1_OpenFailureLeavesNoContext ==
    (Made("avformat_open_input") /\ CodeOf("avformat_open_input") # 0) =>
        /\ status \in {"running", "done"}
        /\ Done => /\ result.tag = "Err"
                   /\ result.code = CodeOf("avformat_open_input")
                   /\ ~Live

C1_Witness ==
    /\ Done /\ fn = "input_with_interrupt" /\ prealloc
    /\ Made("avformat_open_input") /\ CodeOf("avformat_open_input") < 0
    /\ result.tag = "Err" /\ ctx = "freed" /\ frees = 1

\* C2: when the open succeeds and avformat_find_stream_info fails, every
\* input-opening function releases the context before it returns the error.
C2_ProbeFailureReleasesContext ==
    (Done /\ IsInputCall /\ Made("avformat_find_stream_info")
          /\ CodeOf("avformat_find_stream_info") < 0) =>
        (result.tag = "Err" /\ ~Live)

\* C3: when the output context is allocated and the sink open fails, every
\* output-opening function returns Err with the context released.
C3_SinkFailureReleasesContext ==
    (Done /\ ~IsInputCall /\ Made("avformat_alloc_output_context2")
          /\ CodeOf("avformat_alloc_output_context2") = 0
          /\ \E op \in SinkOps : Made(op) /\ CodeOf(op) < 0) =>
        (result.tag = "Err" /\ ~Live)

\* C4: a function that takes an options dictionary never returns with the
\* dictionary still disowned.
C4_DictionaryReowned ==
    (Done /\ TakesOptions(fn)) => dict # "disowned"

\* C5 as claimed: an open function returns Ok exactly when every native call
\* it made returned zero, and otherwise Err with the first non-zero code.
C5_OkIffAllZero ==
    Done =>
        /\ (result.tag = "Ok") <=> (\A i \in 1 .. Len(rets) : rets[i][2] = 0)
        /\ (result.tag = "Err") =>
              \E i \in 1 .. Len(rets) :
                  /\ rets[i][2] # 0
                  /\ \A j \in 1 .. (i - 1) : rets[j][2] = 0
                  /\ result.code = rets[i][2]

\* what the functions take for success of a native call
Succeeded(call) ==
    IF call[1] = "avformat_find_stream_info" THEN call[2] >= 0 ELSE call[2] = 0

\* C5 as amended: zero is success and every other value failure for
\* avformat_open_input, avformat_alloc_output_context2, avio_open and
\* avio_open2, while avformat_find_stream_info succeeds on any value >= 0; a
\* function returns Ok exactly when every call it made succeeded in this
\* sense, and otherwise Err with the code of the first call that did not.
C5_OkIffAllSucceeded ==
    Done =>
        /\ result.tag \in {"Ok", "Err"}
        /\ (result.tag = "Ok") <=> (\A i \in 1 .. Len(rets) : Succeeded(rets[i]))
        /\ (result.tag = "Err") =>
              \E i \in 1 .. Len(rets) :
                  /\ ~Succeeded(rets[i])
                  /\ \A j \in 1 .. (i - 1) : Succeeded(rets[j])
                  /\ result.code = rets[i][2]

C5_Witness ==
    /\ Done /\ result.tag = "Ok"
    /\ Made("avformat_find_stream_info") /\ CodeOf("avformat_find_stream_info") > 0

\* C6: input_with_interrupt with a closure that answers true from its first
\* invocation: an open that waits on a context the function allocated comes
\* to an end, and once the native layer has polled the callback the function
\* returns Err and never Ok.
C6_InterruptEndsOpen ==
    /\ [](( fn = "input_with_interrupt" /\ thresh = 0 /\ polled) =>
            (result.tag # "Ok" /\ status # "crashed"))
    /\ (fn = "input_with_interrupt" /\ thresh = 0 /\ prealloc /\ nat = "blocked")
          ~> (Done /\ (polled => result.tag = "Err"))
    /\ (fn = "input_with_interrupt" /\ thresh = 0 /\ polled)
          ~> (Done /\ result = ErrorFrom(AVERROR_EXIT))

C6_Witness ==
    /\ Done /\ fn = "input_with_interrupt" /\ thresh = 0 /\ polled /\ polls = 1
    /\ result = ErrorFrom(AVERROR_EXIT)

\* bit i of a two's complement integer
RECURSIVE Bit(_, _)
Bit(n, i) == IF i = 0 THEN n % 2 ELSE Bit(n \div 2, i - 1)
BitPositions == 0 .. 31

\* C7: for each Flags type and all values built from its declared constants,
\* the value converted to its integer and back is the same value, and the
\* integer of a union (intersection) is the bitwise OR (AND) of the two
\* integers, which converts back to that union (intersection).
C7_FlagsRoundTrip ==
    /\ fop = "roundtrip" => fout = Some(fa)
    /\ fop = "union" =>
          /\ \A i \in BitPositions :
                Bit(bits(fout.some), i) = 1 <=> (Bit(bits(fa), i) = 1 \/ Bit(bits(fb), i) = 1)
          /\ from_bits(kind, bits(fout.some)) = fout
    /\ fop = "intersection" =>
          /\ \A i \in BitPositions :
                Bit(bits(fout.some), i) = 1 <=> (Bit(bits(fa), i) = 1 /\ Bit(bits(fb), i) = 1)
          /\ from_bits(kind, bits(fout.some)) = fout

C7_Witness ==
    /\ kind = "packet" /\ fop = "union"
    /\ fa = Flags(AV_PKT_FLAG_KEY) /\ fb = Flags(AV_PKT_FLAG_CORRUPT)
    /\ fout = Some(Flags(3))

\* C8: a handle wraps only a context that is allocated, non-null and fully
\* opened (every native call of the function succeeded; an output context has
\* its sink open); no context is released twice, and a context that was
\* released, by avformat_close_input or by the failed open itself, is not
\* wrapped.
C8_WrapOnlyOpenedReleaseOnce ==
    /\ frees <= 1
    /\ frees = 1 => (ctx = "freed" /\ ps = "null" /\ wrapAt = <<>> /\ result.tag # "Ok")
    /\ (result.tag = "Ok") <=> (wrapAt # <<>>)
    /\ wrapAt # <<>> =>
          /\ wrapAt[1] = "ctx"
          /\ IF IsInputCall
             THEN wrapAt[2] = "opened"
             ELSE wrapAt[2] = "allocated" /\ wrapAt[3] = "open"
          /\ \A i \in 1 .. Len(rets) : rets[i][2] >= 0
          /\ Live

C8_Witness ==
    /\ Done /\ fn = "input_with_dictionary" /\ result.tag = "Err"
    /\ Made("avformat_find_stream_info") /\ CodeOf("avformat_find_stream_info") < 0
    /\ frees = 1 /\ ctx = "freed" /\ wrapAt = <<>>

\* C9: a function that takes an options dictionary hands the disowned raw
\* dictionary to exactly one native call on every path.
C9_DictionaryHandedOnce ==
    (Done /\ TakesOptions(fn)) => dictCalls = 1

\* C10: when a conversion aborts the call (an embedded NUL in the path or in
\* the format name), no native context is allocated and the dictionary is not
\* disowned.
C10_AbortLeavesNothing ==
    status = "panicked" => (~Live /\ dict # "disowned")

====
